---- MODULE Spec2Model ----
(***************************************************************************)
(* The lit-cube renderer of rufix: the per-frame render loop of main()     *)
(* (src/src/main.rs), the CPU-side transform/lighting uniforms it uploads  *)
(* and the fragment shader of src/src/shaders.rs.                          *)
(*                                                                         *)
(* Numbers.  f32 values are fixed-point integers in hundredths             *)
(* (FixedOne = 1.0), which represent every literal of the program that the *)
(* model computes with (-2.5, 0.2, 0.01, 1.0) exactly.  Angles are integer *)
(* multiples of pi/180; the clock advances in steps of 9 seconds, where    *)
(* the three rotation angles (50, 30 and 20 times the elapsed time) are    *)
(* multiples of a quarter turn and sine and cosine are exactly -1, 0 or 1. *)
(***************************************************************************)
EXTENDS Integers, Sequences, FiniteSets, TLC

\* ------------------------------------------------------------------ bounds
MaxClock == 2           \* 9-second clock steps in one behaviour
MaxImages == 3          \* most images a swapchain is created with

\* ------------------------------------------------------- fixed-point maths
FixedOne == 10 * 10

Fx(n) == n * FixedOne

RECURSIVE SqrtSearch(_, _, _)
SqrtSearch(n, lo, hi) ==
    IF lo >= hi THEN lo
    ELSE LET mid == (lo + hi + 1) \div 2
         IN  IF mid * mid <= n THEN SqrtSearch(n, mid, hi)
                               ELSE SqrtSearch(n, lo, mid - 1)

\* floor of the square root of n
ISqrt(n) == SqrtSearch(n, 0, IF n < 46340 THEN n ELSE 46340)

vec3(x, y, z) == <<x, y, z>>

Sub3(a, b) == <<a[1] - b[1], a[2] - b[2], a[3] - b[3]>>

\* GLSL dot(a, b) / nalgebra dot
dot(a, b) == (a[1] * b[1] + a[2] * b[2] + a[3] * b[3]) \div FixedOne

cross(a, b) ==
    << (a[2] * b[3] - a[3] * b[2]) \div FixedOne,
       (a[3] * b[1] - a[1] * b[3]) \div FixedOne,
       (a[1] * b[2] - a[2] * b[1]) \div FixedOne >>

length(a) == ISqrt(a[1] * a[1] + a[2] * a[2] + a[3] * a[3])

\* GLSL normalize(a) / nalgebra normalize; a is not the zero vector
normalize(a) ==
    LET l == length(a)
    IN  <<(a[1] * FixedOne) \div l, (a[2] * FixedOne) \div l, (a[3] * FixedOne) \div l>>

identity == << <<FixedOne, 0, 0, 0>>,
              <<0, FixedOne, 0, 0>>,
              <<0, 0, FixedOne, 0>>,
              <<0, 0, 0, FixedOne>> >>

\* the product of two 4x4 matrices (TMat4 * TMat4)
MatMul(A, B) ==
    LET e(i, j) == (A[i][1] * B[1][j] + A[i][2] * B[2][j]
                    + A[i][3] * B[3][j] + A[i][4] * B[4][j]) \div FixedOne
        row(i) == <<e(i, 1), e(i, 2), e(i, 3), e(i, 4)>>
    IN  <<row(1), row(2), row(3), row(4)>>

\* nalgebra_glm::translate(m, v) = m * T(v)
translate(m, v) ==
    MatMul(m, << <<FixedOne, 0, 0, v[1]>>,
                 <<0, FixedOne, 0, v[2]>>,
                 <<0, 0, FixedOne, v[3]>>,
                 <<0, 0, 0, FixedOne>> >>)

\* cosine and sine of a * pi/180, for a a multiple of a quarter turn
cos(a) == CASE a % 360 = 0 -> FixedOne
            [] a % 360 = 90 -> 0
            [] a % 360 = 180 -> 0 - FixedOne
            [] a % 360 = 270 -> 0

sin(a) == CASE a % 360 = 0 -> 0
            [] a % 360 = 90 -> FixedOne
            [] a % 360 = 180 -> 0
            [] a % 360 = 270 -> 0 - FixedOne

\* nalgebra_glm::rotate_normalized_axis(m, angle, axis) = m * R(axis, angle),
\* R the axis-angle rotation c*I + s*[axis]x + (1-c)*axis*axis^T
rotate_normalized_axis(m, angle, axis) ==
    LET c == cos(angle)
        s == sin(angle)
        K == << <<0, 0 - axis[3], axis[2]>>,
                <<axis[3], 0, 0 - axis[1]>>,
                <<0 - axis[2], axis[1], 0>> >>
        R3(i, j) == (IF i = j THEN c ELSE 0)
                    + (s * K[i][j]) \div FixedOne
                    + ((FixedOne - c) * ((axis[i] * axis[j]) \div FixedOne)) \div FixedOne
        R == << <<R3(1, 1), R3(1, 2), R3(1, 3), 0>>,
                <<R3(2, 1), R3(2, 2), R3(2, 3), 0>>,
                <<R3(3, 1), R3(3, 2), R3(3, 3), 0>>,
                <<0, 0, 0, FixedOne>> >>
    IN  MatMul(m, R)

\* nalgebra_glm::look_at(eye, center, up), the right-handed view matrix
look_at(eye, center, up) ==
    LET f == normalize(Sub3(center, eye))
        s == normalize(cross(f, up))
        u == cross(s, f)
    IN  << <<s[1], s[2], s[3], 0 - dot(s, eye)>>,
           <<u[1], u[2], u[3], 0 - dot(u, eye)>>,
           <<0 - f[1], 0 - f[2], 0 - f[3], dot(f, eye)>>,
           <<0, 0, 0, FixedOne>> >>

RECURSIVE Gcd(_, _)
Gcd(a, b) == IF b = 0 THEN a ELSE Gcd(b, a % b)

\* dimensions[0] as f32 / dimensions[1] as f32: the quotient in lowest terms;
\* <<1, 0>> is +infinity (w > 0, h = 0) and <<0, 0>> is NaN (0 / 0)
AspectRatio(dimensions) ==
    LET g == Gcd(dimensions[1], dimensions[2])
    IN  IF g = 0 THEN <<0, 0>> ELSE <<dimensions[1] \div g, dimensions[2] \div g>>

\* nalgebra_glm::perspective(aspect, fovy, near, far): the matrix is kept as
\* the parameters that determine it (fovy is 180.0 radians: no exact tangent)
perspective(aspect, fovy, near, far) ==
    [aspect |-> aspect, fovy |-> fovy, near |-> near, far |-> far, tag |-> "perspective"]

\* ---------------------------------------------------- the world outside
\* inner sizes the window takes (two of them with the same aspect ratio)
WindowSizes == {<<800, 600>>, <<400, 300>>, <<600, 600>>}

\* caps.min_image_count of the surface
MinImageCount == 2

\* SwapchainCreationError, AcquireError, CommandBufferExecError and FlushError
\* values the library can return
SwapchainCreationErrors == {"ImageExtentNotSupported", "DeviceLost", "SurfaceLost"}
AcquireErrors == {"OutOfDate", "DeviceLost", "SurfaceLost"}
CommandBufferExecErrors == {"AccessError"}
FlushErrors == {"OutOfDate", "DeviceLost", "SurfaceLost"}

\* ------------------------------------------------------------------ state
VARIABLES
    control_flow,        \* *control_flow of the event loop: "Poll" or "Exit"
    recreate_swapchain,  \* the rebuild flag
    previous_frame_end,  \* Option<Box<dyn GpuFuture>>: the completion token
    swapchain,           \* the swapchain images are acquired from
    framebuffers,        \* Vec<Arc<Framebuffer>>
    viewport,            \* the dynamic viewport
    mvp,                 \* MVP { model, view, projection }
    ambient_light,       \* AmbientLight { color, intensity }
    directional_light,   \* DirectionalLight { position, color }
    pc,                  \* position inside the RedrawEventsCleared callback
    set,                 \* the frame's descriptor set: the three uniform sub-buffers
    image_index,         \* the image index acquired in this frame, -1 before
    acquire_future,      \* the acquire signal of this frame
    command_buffer,      \* the commands recorded in this frame
    inner_size,          \* the window's inner size
    resized,             \* a Resized event is waiting to be delivered
    clock,               \* 9-second steps since rotation_start
    frame_log,           \* the steps of the current frame and their results
    submission,          \* what this frame handed to the queue
    stderr,              \* lines written by eprintln! in the current callback
    panic,               \* the message the process died with, "" while alive
    fs_in,               \* the inputs of one fragment shader invocation
    f_color              \* the colour that invocation wrote

progvars == <<control_flow, recreate_swapchain, previous_frame_end, swapchain,
              framebuffers, viewport, mvp, ambient_light, directional_light>>
localvars == <<pc, set, image_index, acquire_future, command_buffer>>
envvars == <<inner_size, resized, clock>>
obsvars == <<frame_log, submission, stderr, panic>>
fsvars == <<fs_in, f_color>>
vars == <<progvars, localvars, envvars, obsvars, fsvars>>

\* ----------------------------------------------------------------- values
None == [kind |-> "None", id |-> 0]

\* sync::now(device): a completion token that is already signalled
now == [kind |-> "now", id |-> 0]

\* the fence future of a flushed submission; id tells it from the token the
\* submission waited for
FenceSignalFuture(id) == [kind |-> "fence", id |-> id]

\* the future acquire_next_image returns
SwapchainAcquireFuture == [kind |-> "acquire", id |-> 0]

NoData == [tag |-> "none"]
NoSet == [mvp |-> NoData, ambient |-> NoData, directional |-> NoData]
NoPresent == [swapchain |-> 0 - 1, image_index |-> 0 - 1]
NoSubmission == [waits |-> {}, execute |-> <<>>, present |-> NoPresent]

Step(name, result) == [step |-> name, result |-> result]

\* Swapchain::new / Swapchain::recreate: a swapchain with n images; id tells
\* it from the swapchain it replaces
Swapchain(id, image_extent, n) ==
    [id |-> id, image_extent |-> image_extent, image_count |-> n]

\* the images the swapchain was created with
SwapchainImages(sc) ==
    [i \in 1..sc.image_count |->
        [swapchain |-> sc.id, index |-> i - 1, dimensions |-> sc.image_extent]]

\* MVP::new()
IdentityProjection ==
    [aspect |-> <<0, 0>>, fovy |-> 0, near |-> 0, far |-> 0, tag |-> "identity"]

MVP_new == [model |-> identity, view |-> identity, projection |-> IdentityProjection]

\* mutant: the viewport keeps the dimensions it had
window_size_dependent_setup_ViewportKept(images, vp) ==
    LET dimensions == images[1].dimensions
        depth_buffer == [format |-> "D16_UNORM", dimensions |-> dimensions]
    IN  [viewport |-> vp,
         framebuffers |-> [i \in 1..Len(images) |->
                              [attachments |-> <<images[i], depth_buffer>>]]]

\* window_size_dependent_setup: the viewport takes the dimensions of the first
\* image, one depth image of those dimensions is shared, and there is one
\* framebuffer per image
window_size_dependent_setup(images, vp) ==
    LET dimensions == images[1].dimensions
        depth_buffer == [format |-> "D16_UNORM", dimensions |-> dimensions]
    IN  [viewport |-> [vp EXCEPT !.dimensions = dimensions],
         framebuffers |-> [i \in 1..Len(images) |->
                              [attachments |-> <<images[i], depth_buffer>>]]]

\* ------------------------------------------------------------------- Init
\* the state main() builds before event_loop.run
InitMain ==
    /\ inner_size \in WindowSizes
    /\ \E n \in MinImageCount..MaxImages :
         /\ swapchain = Swapchain(0, inner_size, n)
         /\ LET r == window_size_dependent_setup(
                        SwapchainImages(Swapchain(0, inner_size, n)),
                        [origin |-> <<0, 0>>, dimensions |-> <<0, 0>>,
                         depth_range |-> <<0, 1>>])
            IN  /\ framebuffers = r.framebuffers
                /\ viewport = r.viewport
    /\ recreate_swapchain = FALSE
    /\ previous_frame_end = now
    /\ mvp = [MVP_new EXCEPT !.model = translate(identity, vec3(0, 0, 0 - 250))]
    /\ ambient_light = [color |-> <<Fx(1), Fx(1), Fx(1)>>, intensity |-> 20]
    /\ directional_light = [position |-> <<Fx(0 - 4), Fx(0 - 4), 0, Fx(1)>>,
                            color |-> <<Fx(1), Fx(1), Fx(1)>>]
    /\ control_flow = "Poll"
    /\ pc = "idle"
    /\ set = NoSet
    /\ image_index = 0 - 1
    /\ acquire_future = None
    /\ command_buffer = <<>>
    /\ resized = FALSE
    /\ clock = 0
    /\ frame_log = <<>>
    /\ submission = NoSubmission
    /\ stderr = <<>>
    /\ panic = ""

NoFragment == [in_color |-> <<0, 0, 0>>, in_normal |-> <<0, 0, 0>>,
               frag_pos |-> <<0, 0, 0>>]
NoColor == <<0, 0, 0, 0>>

Init == InitMain /\ fs_in = NoFragment /\ f_color = NoColor

\* event_loop.run calls the callback for every event until the loop has
\* stopped or the process has died.  ControlFlow::Exit asks the loop to stop;
\* the arms of the callback do not look at *control_flow, so the events the
\* loop still delivers after the request are handled like any other
Running == pc # "exited" /\ panic = ""

\* panic!(msg) / unwrap() on an error: the process dies at this point
Panics(msg) == pc' = "panicked" /\ panic' = msg

\* ------------------------------------------------------------ environment
\* the window takes another inner size; winit queues a Resized event
WindowResize ==
    /\ UNCHANGED fsvars
    /\ Running
    /\ \E size \in WindowSizes \ {inner_size} : inner_size' = size
    /\ resized' = TRUE
    /\ UNCHANGED <<progvars, localvars, clock, obsvars>>

\* rotation_start.elapsed() grows; the callback reads it in one place, so the
\* clock steps between callbacks
Tick ==
    /\ UNCHANGED fsvars
    /\ Running /\ pc = "idle"
    /\ clock < MaxClock
    /\ clock' = clock + 1
    /\ UNCHANGED <<progvars, localvars, inner_size, resized, obsvars>>

\* --------------------------------------------------------- event handlers
\* mutant: the handler waits for the previous frame before it asks for the exit
CloseRequested_WaitsForPreviousFrame ==
    /\ UNCHANGED fsvars
    /\ Running /\ pc = "idle"
    /\ control_flow' = "Exit"
    /\ previous_frame_end' = now
    /\ UNCHANGED <<recreate_swapchain, swapchain, framebuffers,
                   viewport, mvp, ambient_light, directional_light,
                   localvars, envvars, obsvars>>

\* WindowEvent::CloseRequested
CloseRequested ==
    /\ UNCHANGED fsvars
    /\ Running /\ pc = "idle"
    /\ control_flow' = "Exit"
    /\ UNCHANGED <<recreate_swapchain, previous_frame_end, swapchain, framebuffers,
                   viewport, mvp, ambient_light, directional_light,
                   localvars, envvars, obsvars>>

\* the loop stops after ControlFlow::Exit without another RedrawEventsCleared:
\* Event::LoopDestroyed falls into the `_ => {}` arm
LoopDestroyed ==
    /\ UNCHANGED fsvars
    /\ Running /\ pc = "idle"
    /\ control_flow = "Exit"
    /\ pc' = "exited"
    /\ UNCHANGED <<progvars, set, image_index, acquire_future, command_buffer,
                   envvars, obsvars>>

\* WindowEvent::Resized(_)
Resized ==
    /\ UNCHANGED fsvars
    /\ Running /\ pc = "idle"
    /\ resized
    /\ resized' = FALSE
    /\ recreate_swapchain' = TRUE
    /\ UNCHANGED <<control_flow, previous_frame_end, swapchain, framebuffers,
                   viewport, mvp, ambient_light, directional_light,
                   localvars, inner_size, clock, obsvars>>

\* ------------------------------------------- the RedrawEventsCleared callback
\* the callback returns (a return statement or the end of the match arm): its
\* locals are dropped and the event loop waits for the next event, or stops
\* when RedrawEventsCleared was the last event of the iteration that asked for
\* the exit
Return ==
    /\ UNCHANGED fsvars
    /\ pc = "return"
    /\ pc' = IF control_flow = "Exit" THEN "exited" ELSE "idle"
    /\ set' = NoSet
    /\ image_index' = 0 - 1
    /\ acquire_future' = None
    /\ command_buffer' = <<>>
    /\ frame_log' = <<>>
    /\ submission' = NoSubmission
    /\ stderr' = <<>>
    /\ UNCHANGED <<progvars, envvars, panic>>

\* Event::RedrawEventsCleared is delivered once the queued window events are
\* handled.  previous_frame_end.as_mut().take().unwrap().cleanup_finished():
\* take() empties the temporary Option<&mut _> that as_mut() returns, the
\* token itself stays in previous_frame_end
RedrawEventsCleared ==
    /\ UNCHANGED fsvars
    /\ Running /\ pc = "idle"
    /\ ~resized
    /\ IF previous_frame_end = None
       THEN /\ Panics("called Option::unwrap() on a None value")
            /\ frame_log' = <<>>
       ELSE /\ pc' = "recreate"
            /\ frame_log' = <<Step("cleanup_finished", "Ok")>>
            /\ UNCHANGED panic
    /\ UNCHANGED <<progvars, set, image_index, acquire_future, command_buffer,
                   envvars, submission, stderr>>

\* mutant: the framebuffers are not rebuilt for the new swapchain
MatchRecreate_FramebuffersKept(r) ==
    CASE r = "Ok" ->
           \E n \in MinImageCount..MaxImages :
             LET new_swapchain == Swapchain(1 - swapchain.id, inner_size, n)
                 new_images == SwapchainImages(new_swapchain)
                 w == window_size_dependent_setup(new_images, viewport)
             IN  /\ swapchain' = new_swapchain
                 /\ framebuffers' = framebuffers
                 /\ viewport' = w.viewport
                 /\ recreate_swapchain' = FALSE
                 /\ pc' = "uniforms"
                 /\ UNCHANGED panic
      [] r = "ImageExtentNotSupported" ->
           /\ pc' = "return"
           /\ UNCHANGED <<swapchain, framebuffers, viewport, recreate_swapchain, panic>>
      [] OTHER ->
           /\ Panics("Failed to recreate swapchain")
           /\ UNCHANGED <<swapchain, framebuffers, viewport, recreate_swapchain>>

\* mutant: every error of the recreation skips the frame
MatchRecreate_ReturnsOnAnyError(r) ==
    CASE r = "Ok" ->
           \E n \in MinImageCount..MaxImages :
             LET new_swapchain == Swapchain(1 - swapchain.id, inner_size, n)
                 new_images == SwapchainImages(new_swapchain)
                 w == window_size_dependent_setup(new_images, viewport)
             IN  /\ swapchain' = new_swapchain
                 /\ framebuffers' = w.framebuffers
                 /\ viewport' = w.viewport
                 /\ recreate_swapchain' = FALSE
                 /\ pc' = "uniforms"
                 /\ UNCHANGED panic
      [] OTHER ->
           /\ pc' = "return"
           /\ UNCHANGED <<swapchain, framebuffers, viewport, recreate_swapchain, panic>>

\* mutant: the flag is cleared before the result of the recreation is known
MatchRecreate_FlagClearedFirst(r) ==
    CASE r = "Ok" ->
           \E n \in MinImageCount..MaxImages :
             LET new_swapchain == Swapchain(1 - swapchain.id, inner_size, n)
                 new_images == SwapchainImages(new_swapchain)
                 w == window_size_dependent_setup(new_images, viewport)
             IN  /\ swapchain' = new_swapchain
                 /\ framebuffers' = w.framebuffers
                 /\ viewport' = w.viewport
                 /\ recreate_swapchain' = FALSE
                 /\ pc' = "uniforms"
                 /\ UNCHANGED panic
      [] r = "ImageExtentNotSupported" ->
           /\ pc' = "return"
           /\ recreate_swapchain' = FALSE
           /\ UNCHANGED <<swapchain, framebuffers, viewport, panic>>
      [] OTHER ->
           /\ Panics("Failed to recreate swapchain")
           /\ UNCHANGED <<swapchain, framebuffers, viewport, recreate_swapchain>>

\* match swapchain.recreate(..) { Ok(r) => r, Err(ImageExtentNotSupported)
\* => return, Err(e) => panic!(..) } and the statements after it
MatchRecreate(r) ==
    CASE r = "Ok" ->
           \E n \in MinImageCount..MaxImages :
             LET new_swapchain == Swapchain(1 - swapchain.id, inner_size, n)
                 new_images == SwapchainImages(new_swapchain)
                 w == window_size_dependent_setup(new_images, viewport)
             IN  /\ swapchain' = new_swapchain
                 /\ framebuffers' = w.framebuffers
                 /\ viewport' = w.viewport
                 /\ recreate_swapchain' = FALSE
                 /\ pc' = "uniforms"
                 /\ UNCHANGED panic
      [] r = "ImageExtentNotSupported" ->
           /\ pc' = "return"
           /\ UNCHANGED <<swapchain, framebuffers, viewport, recreate_swapchain, panic>>
      [] OTHER ->
           /\ Panics("Failed to recreate swapchain")
           /\ UNCHANGED <<swapchain, framebuffers, viewport, recreate_swapchain>>

\* if recreate_swapchain { .. }
RecreateSwapchain ==
    /\ UNCHANGED fsvars
    /\ pc = "recreate"
    /\ IF ~recreate_swapchain
       THEN /\ pc' = "uniforms"
            /\ UNCHANGED <<swapchain, framebuffers, viewport, recreate_swapchain,
                           frame_log, panic>>
       ELSE \E r \in {"Ok"} \cup SwapchainCreationErrors :
              /\ frame_log' = Append(frame_log, Step("recreate", r))
              /\ MatchRecreate(r)
    /\ UNCHANGED <<control_flow, previous_frame_end, mvp, ambient_light,
                   directional_light, set, image_index, acquire_future,
                   command_buffer, envvars, submission, stderr>>

\* mutant: the three rotations are applied in the order x, y, z
Rotation_XThenYThenZ(elapsed_as_radians) ==
    LET rx == rotate_normalized_axis(identity, elapsed_as_radians * 20,
                                     vec3(FixedOne, 0, 0))
        ry == rotate_normalized_axis(rx, elapsed_as_radians * 30,
                                     vec3(0, FixedOne, 0))
    IN  rotate_normalized_axis(ry, elapsed_as_radians * 50, vec3(0, 0, FixedOne))

\* the rotation of the frame: about z, then y, then x, from the identity
Rotation(elapsed_as_radians) ==
    LET rz == rotate_normalized_axis(identity, elapsed_as_radians * 50,
                                     vec3(0, 0, FixedOne))
        ry == rotate_normalized_axis(rz, elapsed_as_radians * 30,
                                     vec3(0, FixedOne, 0))
    IN  rotate_normalized_axis(ry, elapsed_as_radians * 20, vec3(FixedOne, 0, 0))

\* model = mvp.model * model
World(mvp_model, elapsed) ==
    \* elapsed * pi / 180: the angle unit of the model is pi/180
    LET elapsed_as_radians == elapsed
    IN  MatMul(mvp_model, Rotation(elapsed_as_radians))

\* rotation_start.elapsed() in seconds
Elapsed == 9 * clock

\* mutant: the rotation of the frame is kept in mvp.model
AssignMvp_RotationAccumulated ==
    [mvp EXCEPT
        !.projection = perspective(AspectRatio(inner_size), Fx(180), 1, Fx(100)),
        !.view = look_at(vec3(0, 0, 1), vec3(0, 0, 0), vec3(0, 0 - FixedOne, 0)),
        !.model = World(mvp.model, Elapsed)]

\* the assignments to mvp in the callback: projection and view
AssignMvp ==
    [mvp EXCEPT
        !.projection = perspective(AspectRatio(inner_size), Fx(180), 1, Fx(100)),
        !.view = look_at(vec3(0, 0, 1), vec3(0, 0, 0), vec3(0, 0 - FixedOne, 0))]

\* vs::ty::MVP_Data { world, view, projection }
MVP_Data(m) ==
    [world |-> World(mvp.model, Elapsed), view |-> m.view, projection |-> m.projection]

\* fs::ty::Ambient_Data { color, intensity }
Ambient_Data ==
    [color |-> ambient_light.color, intensity |-> ambient_light.intensity]

\* fs::ty::Directional_Light_Data { position, color }
Directional_Light_Data ==
    [position |-> directional_light.position, color |-> directional_light.color]

\* the three uniform sub-buffers and the descriptor set made of them
UploadUniforms ==
    /\ UNCHANGED fsvars
    /\ pc = "uniforms"
    /\ mvp' = AssignMvp
    /\ set' = [mvp |-> MVP_Data(mvp'),
               ambient |-> Ambient_Data,
               directional |-> Directional_Light_Data]
    /\ frame_log' = Append(frame_log, Step("upload", "Ok"))
    /\ pc' = "acquire"
    /\ UNCHANGED <<control_flow, recreate_swapchain, previous_frame_end, swapchain,
                   framebuffers, viewport, ambient_light, directional_light,
                   image_index, acquire_future, command_buffer,
                   envvars, submission, stderr, panic>>

\* mutant: a suboptimal acquisition is handled like an out-of-date one
MatchAcquire_SuboptimalSkipsFrame(r) ==
    CASE r = "Ok" ->
           /\ \E i \in 0..(swapchain.image_count - 1) : image_index' = i
           /\ acquire_future' = SwapchainAcquireFuture
           /\ pc' = "record"
           /\ UNCHANGED <<recreate_swapchain, panic>>
      [] r \in {"OutOfDate", "Suboptimal"} ->
           /\ recreate_swapchain' = TRUE
           /\ pc' = "return"
           /\ UNCHANGED <<image_index, acquire_future, panic>>
      [] OTHER ->
           /\ Panics("Failed to acquire next image")
           /\ UNCHANGED <<recreate_swapchain, image_index, acquire_future>>

\* mutant: an out-of-date acquisition returns without asking for a rebuild
MatchAcquire_NoRebuildRequest(r) ==
    CASE r \in {"Ok", "Suboptimal"} ->
           /\ \E i \in 0..(swapchain.image_count - 1) : image_index' = i
           /\ acquire_future' = SwapchainAcquireFuture
           /\ recreate_swapchain' = (recreate_swapchain \/ r = "Suboptimal")
           /\ pc' = "record"
           /\ UNCHANGED panic
      [] r = "OutOfDate" ->
           /\ pc' = "return"
           /\ UNCHANGED <<recreate_swapchain, image_index, acquire_future, panic>>
      [] OTHER ->
           /\ Panics("Failed to acquire next image")
           /\ UNCHANGED <<recreate_swapchain, image_index, acquire_future>>

\* match swapchain::acquire_next_image(..) { Ok(r) => r, Err(OutOfDate) => {
\* recreate_swapchain = true; return; } Err(e) => panic!(..) } and
\* if suboptimal { recreate_swapchain = true; }
MatchAcquire(r) ==
    CASE r \in {"Ok", "Suboptimal"} ->
           /\ \E i \in 0..(swapchain.image_count - 1) : image_index' = i
           /\ acquire_future' = SwapchainAcquireFuture
           /\ recreate_swapchain' = (recreate_swapchain \/ r = "Suboptimal")
           /\ pc' = "record"
           /\ UNCHANGED panic
      [] r = "OutOfDate" ->
           /\ recreate_swapchain' = TRUE
           /\ pc' = "return"
           /\ UNCHANGED <<image_index, acquire_future, panic>>
      [] OTHER ->
           /\ Panics("Failed to acquire next image")
           /\ UNCHANGED <<recreate_swapchain, image_index, acquire_future>>

AcquireNextImage ==
    /\ UNCHANGED fsvars
    /\ pc = "acquire"
    /\ \E r \in {"Ok", "Suboptimal"} \cup AcquireErrors :
         /\ frame_log' = Append(frame_log, Step("acquire", r))
         /\ MatchAcquire(r)
    /\ UNCHANGED <<control_flow, previous_frame_end, swapchain, framebuffers, viewport,
                   mvp, ambient_light, directional_light, set, command_buffer,
                   envvars, submission, stderr>>

\* Vertex { position, normal, color }: position and normal in hundredths, the
\* colour in thousandths (0.137 has three decimals)
Vertex(position, normal, color) ==
    [position |-> position, normal |-> normal, color |-> color]

\* get_vertex_buffer: the vertices the buffer is filled with, in the order of
\* the array literal
get_vertex_buffer ==
    <<
       \* front face
       Vertex(<<0 - 100, 0 - 100, 100>>, <<0, 0, 100>>, <<1000, 350, 137>>),
       Vertex(<<0 - 100, 100, 100>>, <<0, 0, 100>>, <<1000, 350, 137>>),
       Vertex(<<100, 100, 100>>, <<0, 0, 100>>, <<1000, 350, 137>>),
       Vertex(<<0 - 100, 0 - 100, 100>>, <<0, 0, 100>>, <<1000, 350, 137>>),
       Vertex(<<100, 100, 100>>, <<0, 0, 100>>, <<1000, 350, 137>>),
       Vertex(<<100, 0 - 100, 100>>, <<0, 0, 100>>, <<1000, 350, 137>>),
       \* back face
       Vertex(<<100, 0 - 100, 0 - 100>>, <<0, 0, 0 - 100>>, <<1000, 350, 137>>),
       Vertex(<<100, 100, 0 - 100>>, <<0, 0, 0 - 100>>, <<1000, 350, 137>>),
       Vertex(<<0 - 100, 100, 0 - 100>>, <<0, 0, 0 - 100>>, <<1000, 350, 137>>),
       Vertex(<<100, 0 - 100, 0 - 100>>, <<0, 0, 0 - 100>>, <<1000, 350, 137>>),
       Vertex(<<0 - 100, 100, 0 - 100>>, <<0, 0, 0 - 100>>, <<1000, 350, 137>>),
       Vertex(<<0 - 100, 0 - 100, 0 - 100>>, <<0, 0, 0 - 100>>, <<1000, 350, 137>>),
       \* top face
       Vertex(<<0 - 100, 0 - 100, 100>>, <<0, 0 - 100, 0>>, <<1000, 350, 137>>),
       Vertex(<<100, 0 - 100, 100>>, <<0, 0 - 100, 0>>, <<1000, 350, 137>>),
       Vertex(<<100, 0 - 100, 0 - 100>>, <<0, 0 - 100, 0>>, <<1000, 350, 137>>),
       Vertex(<<0 - 100, 0 - 100, 100>>, <<0, 0 - 100, 0>>, <<1000, 350, 137>>),
       Vertex(<<100, 0 - 100, 0 - 100>>, <<0, 0 - 100, 0>>, <<1000, 350, 137>>),
       Vertex(<<0 - 100, 0 - 100, 0 - 100>>, <<0, 0 - 100, 0>>, <<1000, 350, 137>>),
       \* bottom face
       Vertex(<<100, 100, 100>>, <<0, 100, 0>>, <<1000, 350, 137>>),
       Vertex(<<0 - 100, 100, 100>>, <<0, 100, 0>>, <<1000, 350, 137>>),
       Vertex(<<0 - 100, 100, 0 - 100>>, <<0, 100, 0>>, <<1000, 350, 137>>),
       Vertex(<<100, 100, 100>>, <<0, 100, 0>>, <<1000, 350, 137>>),
       Vertex(<<0 - 100, 100, 0 - 100>>, <<0, 100, 0>>, <<1000, 350, 137>>),
       Vertex(<<100, 100, 0 - 100>>, <<0, 100, 0>>, <<1000, 350, 137>>),
       \* left face
       Vertex(<<0 - 100, 0 - 100, 0 - 100>>, <<0 - 100, 0, 0>>, <<1000, 350, 137>>),
       Vertex(<<0 - 100, 100, 0 - 100>>, <<0 - 100, 0, 0>>, <<1000, 350, 137>>),
       Vertex(<<0 - 100, 100, 100>>, <<0 - 100, 0, 0>>, <<1000, 350, 137>>),
       Vertex(<<0 - 100, 0 - 100, 0 - 100>>, <<0 - 100, 0, 0>>, <<1000, 350, 137>>),
       Vertex(<<0 - 100, 100, 100>>, <<0 - 100, 0, 0>>, <<1000, 350, 137>>),
       Vertex(<<0 - 100, 0 - 100, 100>>, <<0 - 100, 0, 0>>, <<1000, 350, 137>>),
       \* right face
       Vertex(<<100, 0 - 100, 100>>, <<100, 0, 0>>, <<1000, 350, 137>>),
       Vertex(<<100, 100, 100>>, <<100, 0, 0>>, <<1000, 350, 137>>),
       Vertex(<<100, 100, 0 - 100>>, <<100, 0, 0>>, <<1000, 350, 137>>),
       Vertex(<<100, 0 - 100, 100>>, <<100, 0, 0>>, <<1000, 350, 137>>),
       Vertex(<<100, 100, 0 - 100>>, <<100, 0, 0>>, <<1000, 350, 137>>),
       Vertex(<<100, 0 - 100, 0 - 100>>, <<100, 0, 0>>, <<1000, 350, 137>>)
    >>

vertex_buffer == get_vertex_buffer

\* vertex_buffer.len()
VertexCount == Len(vertex_buffer)

Cmd(name, args) == [cmd |-> name, args |-> args]

\* mutant: the draw is given the number of triangles instead of vertices
RenderPassCommands_DrawsTriangleCount(framebuffer, vp, descriptor_set) ==
    << Cmd("begin_render_pass", framebuffer),
       Cmd("set_viewport", vp),
       Cmd("bind_pipeline_graphics", "pipeline"),
       Cmd("bind_descriptor_sets", descriptor_set),
       Cmd("bind_vertex_buffers", vertex_buffer),
       Cmd("draw", <<VertexCount \div 3, 1, 0, 0>>),
       Cmd("end_render_pass", <<>>) >>

\* the builder chain from begin_render_pass to end_render_pass:
\* draw(vertex_count, instance_count, first_vertex, first_instance)
RenderPassCommands(framebuffer, vp, descriptor_set) ==
    << Cmd("begin_render_pass", framebuffer),
       Cmd("set_viewport", vp),
       Cmd("bind_pipeline_graphics", "pipeline"),
       Cmd("bind_descriptor_sets", descriptor_set),
       Cmd("bind_vertex_buffers", vertex_buffer),
       Cmd("draw", <<VertexCount, 1, 0, 0>>),
       Cmd("end_render_pass", <<>>) >>

\* the commands of the frame's one-time-submit primary command buffer;
\* framebuffers[image_index as usize] panics when the index is out of bounds
RecordCommandBuffer ==
    /\ UNCHANGED fsvars
    /\ pc = "record"
    /\ IF image_index + 1 > Len(framebuffers)
       THEN /\ Panics("index out of bounds")
            /\ UNCHANGED <<command_buffer, frame_log>>
       ELSE /\ command_buffer' =
                 RenderPassCommands(framebuffers[image_index + 1], viewport, set)
            /\ frame_log' = Append(frame_log, Step("record", "Ok"))
            /\ pc' = "submit"
            /\ UNCHANGED panic
    /\ UNCHANGED <<progvars, set, image_index, acquire_future,
                   envvars, submission, stderr>>

\* mutant: the present names the first image of the swapchain
FutureChain_PresentsFirstImage ==
    [waits |-> {previous_frame_end, acquire_future},
     execute |-> command_buffer,
     present |-> [swapchain |-> swapchain.id, image_index |-> 0]]

\* previous_frame_end.take().unwrap().join(acquire_future)
\*     .then_execute(queue, command_buffer) ..
\*     .then_swapchain_present(queue, swapchain_image_index(swapchain, image_index)):
\* what the flush hands to the queue
FutureChain ==
    [waits |-> {previous_frame_end, acquire_future},
     execute |-> command_buffer,
     present |-> [swapchain |-> swapchain.id, image_index |-> image_index]]

\* the fence of a new submission is another object than the token it joined
NewFenceId == IF previous_frame_end.kind = "fence" THEN 1 - previous_frame_end.id ELSE 0

\* mutant: the error arms leave previous_frame_end as take() left it
MatchFuture_TokenNotReplaced(r) ==
    CASE r = "Ok" ->
           /\ previous_frame_end' = FenceSignalFuture(NewFenceId)
           /\ UNCHANGED <<recreate_swapchain, stderr>>
      [] r = "OutOfDate" ->
           /\ recreate_swapchain' = TRUE
           /\ previous_frame_end' = None
           /\ UNCHANGED stderr
      [] OTHER ->
           /\ stderr' = Append(stderr, <<"Failed to flush future", r>>)
           /\ previous_frame_end' = None
           /\ UNCHANGED recreate_swapchain

\* mutant: every flush error asks for a rebuild
MatchFuture_RebuildOnAnyError(r) ==
    CASE r = "Ok" ->
           /\ previous_frame_end' = FenceSignalFuture(NewFenceId)
           /\ UNCHANGED <<recreate_swapchain, stderr>>
      [] OTHER ->
           /\ recreate_swapchain' = TRUE
           /\ previous_frame_end' = now
           /\ stderr' = IF r = "OutOfDate" THEN stderr
                        ELSE Append(stderr, <<"Failed to flush future", r>>)

\* match future { Ok(future) => .., Err(FlushError::OutOfDate) => ..,
\* Err(e) => .. }
MatchFuture(r) ==
    CASE r = "Ok" ->
           /\ previous_frame_end' = FenceSignalFuture(NewFenceId)
           /\ UNCHANGED <<recreate_swapchain, stderr>>
      [] r = "OutOfDate" ->
           /\ recreate_swapchain' = TRUE
           /\ previous_frame_end' = now
           /\ UNCHANGED stderr
      [] OTHER ->
           /\ stderr' = Append(stderr, <<"Failed to flush future", r>>)
           /\ previous_frame_end' = now
           /\ UNCHANGED recreate_swapchain

\* the submission of the frame: the token is taken, the chain is built
\* (then_execute(..).unwrap() panics on its error), flushed, and the result
\* of the flush is matched
SubmitAndFlush ==
    /\ UNCHANGED fsvars
    /\ pc = "submit"
    /\ IF previous_frame_end = None
       THEN /\ Panics("called Option::unwrap() on a None value")
            /\ UNCHANGED <<recreate_swapchain, previous_frame_end, frame_log,
                           submission, stderr>>
       ELSE \E x \in {"Ok"} \cup CommandBufferExecErrors :
              IF x # "Ok"
              THEN /\ Panics("called Result::unwrap() on an Err value")
                   /\ previous_frame_end' = None
                   /\ frame_log' = Append(frame_log, Step("execute", x))
                   /\ UNCHANGED <<recreate_swapchain, submission, stderr>>
              ELSE \E r \in {"Ok"} \cup FlushErrors :
                     /\ submission' = FutureChain
                     /\ frame_log' = frame_log \o
                          << Step("execute", "Ok"), Step("present", "Ok"),
                             Step("flush", r) >>
                     /\ MatchFuture(r)
                     /\ pc' = "return"
                     /\ UNCHANGED panic
    /\ UNCHANGED <<control_flow, swapchain, framebuffers, viewport, mvp,
                   ambient_light, directional_light, set, image_index,
                   acquire_future, command_buffer, envvars>>

\* ------------------------------------------------------ the fragment shader
Max(a, b) == IF a >= b THEN a ELSE b

\* float * vec3
Scale3(k, v) == <<(k * v[1]) \div FixedOne, (k * v[2]) \div FixedOne,
                  (k * v[3]) \div FixedOne>>

\* vec3 + vec3 and the component-wise vec3 * vec3
Add3(a, b) == <<a[1] + b[1], a[2] + b[2], a[3] + b[3]>>
Mul3(a, b) == <<(a[1] * b[1]) \div FixedOne, (a[2] * b[2]) \div FixedOne,
                (a[3] * b[3]) \div FixedOne>>

xyz(v) == <<v[1], v[2], v[3]>>

\* vec3 light_direction = normalize(directional.position.xyz - frag_pos)
LightDirection(directional, frag_pos) ==
    normalize(Sub3(xyz(directional.position), frag_pos))

\* mutant: the dot product is not clamped
DirectionalIntensity_Unclamped(in_normal, light_direction) ==
    dot(in_normal, light_direction)

\* float directional_intensity = max(dot(in_normal, light_direction), 0.0)
DirectionalIntensity(in_normal, light_direction) ==
    Max(dot(in_normal, light_direction), 0)

\* fs main(): the colour written to f_color
fs_main(in_color, in_normal, frag_pos, ambient, directional) ==
    LET ambient_color == Scale3(ambient.intensity, ambient.color)
        light_direction == LightDirection(directional, frag_pos)
        directional_intensity == DirectionalIntensity(in_normal, light_direction)
        directional_color == Scale3(directional_intensity, directional.color)
        combined_color == Mul3(Add3(ambient_color, directional_color), in_color)
    IN  <<combined_color[1], combined_color[2], combined_color[3], FixedOne>>

\* interpolated normals, fragment positions and vertex colours of the
\* invocations looked at; no fragment lies on the light
Normals == {<<0, 0, 100>>, <<0, 0, 0 - 100>>, <<100, 0, 0>>, <<0 - 100, 0, 0>>,
            <<0, 100, 0>>, <<0, 0 - 100, 0>>, <<60, 0, 80>>, <<0, 0 - 200, 0>>}
FragmentPositions == {<<0, 0, 0>>, <<0 - 400, 0 - 400, 0 - 100>>,
                      <<0 - 400, 0 - 400, 200>>, <<0 - 700, 0 - 400, 0 - 400>>,
                      <<0 - 400, 0 - 100, 0>>, <<0 - 100, 0 - 400, 400>>}
Colors == {<<100, 35, 50>>, <<100, 100, 100>>}

InitFragment ==
    /\ InitMain
    /\ fs_in \in [in_color : Colors, in_normal : Normals, frag_pos : FragmentPositions]
    /\ f_color = NoColor

\* one invocation of the fragment shader with the uniforms of the frame
FragmentShader ==
    /\ f_color = NoColor
    /\ f_color' = fs_main(fs_in.in_color, fs_in.in_normal, fs_in.frag_pos,
                          Ambient_Data, Directional_Light_Data)
    /\ UNCHANGED <<progvars, localvars, envvars, obsvars, fs_in>>

NextFragment == FragmentShader

SpecFragment == InitFragment /\ [][NextFragment]_vars

\* ------------------------------------------------------------ specification
Next ==
    \/ WindowResize
    \/ Tick
    \/ CloseRequested
    \/ Resized
    \/ LoopDestroyed
    \/ RedrawEventsCleared
    \/ RecreateSwapchain
    \/ UploadUniforms
    \/ AcquireNextImage
    \/ RecordCommandBuffer
    \/ SubmitAndFlush
    \/ Return

Spec == Init /\ [][Next]_vars

TypeOK ==
    /\ control_flow \in {"Poll", "Exit"}
    /\ recreate_swapchain \in BOOLEAN
    /\ pc \in {"idle", "recreate", "uniforms", "acquire", "record", "submit",
               "return", "panicked", "exited"}
    /\ clock \in 0..MaxClock
    /\ inner_size \in WindowSizes

\* ----------------------------------------------------- reading the frame log
Last(log) == log[Len(log)]

\* the step `name` was taken in the current frame
Did(name) == \E i \in DOMAIN frame_log : frame_log[i].step = name

\* the step `name` was taken in the current frame and ended with `result`
DidWith(name, result) == \E i \in DOMAIN frame_log : frame_log[i] = Step(name, result)

\* this step is the step `name` of the frame, ending with `result`
Takes(name, result) ==
    /\ Len(frame_log') > Len(frame_log)
    /\ Last(frame_log') = Step(name, result)

Tokens == {now, FenceSignalFuture(0), FenceSignalFuture(1)}

\* ------------------------------------------------------------------ claims

\* C1: between callbacks, when a frame callback has started and when it is
\* about to return, previous_frame_end holds a completion token (it is never
\* empty), whatever resizes, skipped frames, successful frames and failed
\* flushes came before; and every submission waits for exactly that token
\* joined with the acquire signal of the frame, and takes it out of
\* previous_frame_end.
C1_TokenHeld ==
    pc \in {"idle", "recreate", "return"} => previous_frame_end \in Tokens

C1_SubmissionJoinsToken ==
    submission' # submission /\ submission' # NoSubmission
        => /\ previous_frame_end \in Tokens
           /\ acquire_future = SwapchainAcquireFuture
           /\ submission'.waits = {previous_frame_end, acquire_future}
           /\ previous_frame_end' = now \/ previous_frame_end' # previous_frame_end

C1_OneTokenAlwaysJoined == []C1_TokenHeld /\ [][C1_SubmissionJoinsToken]_vars

\* a failed flush after a successful frame: the fence of the earlier frame
\* was joined, and a no-op token is held when the callback returns
C1_Witness ==
    /\ pc = "return"
    /\ DidWith("flush", "DeviceLost")
    /\ \E id \in {0, 1} : FenceSignalFuture(id) \in submission.waits
    /\ previous_frame_end = now

\* C2: when acquire_next_image fails with OutOfDate, the failure sets
\* recreate_swapchain and leaves previous_frame_end, the swapchain and the
\* framebuffers as they were; the frame records no command buffer, submits
\* nothing and presents nothing.
C2_AcquireOutOfDateStep ==
    pc = "acquire" /\ Takes("acquire", "OutOfDate")
        => /\ recreate_swapchain'
           /\ pc' = "return"
           /\ UNCHANGED <<previous_frame_end, swapchain, framebuffers>>

C2_NothingSubmitted ==
    DidWith("acquire", "OutOfDate")
        => /\ pc = "return"
           /\ recreate_swapchain
           /\ ~Did("record") /\ ~Did("execute") /\ ~Did("present") /\ ~Did("flush")
           /\ command_buffer = <<>>
           /\ submission = NoSubmission

C2_OutOfDateAcquireSkipsFrame ==
    []C2_NothingSubmitted /\ [][C2_AcquireOutOfDateStep]_vars

\* an out-of-date acquisition in a frame that follows a successful one
C2_Witness ==
    /\ pc = "return"
    /\ DidWith("acquire", "OutOfDate")
    /\ previous_frame_end.kind = "fence"

\* C3: the match on the result of the flush.  Ok: the fence of this frame
\* becomes previous_frame_end and recreate_swapchain keeps its value.
\* OutOfDate: recreate_swapchain is set and previous_frame_end is a fresh
\* no-op token.  Any other error: one line is logged, previous_frame_end is a
\* fresh no-op token, recreate_swapchain keeps its value.  In every case the
\* callback returns with the process alive and the control flow as it was.
C3_FlushStep ==
    pc = "submit" /\ Did("record") /\ Len(frame_log') > Len(frame_log)
                 /\ Last(frame_log').step = "flush"
        => LET r == Last(frame_log').result
           IN  /\ pc' = "return" /\ panic' = "" /\ control_flow' = control_flow
               /\ r = "Ok" =>
                     /\ previous_frame_end'.kind = "fence"
                     /\ previous_frame_end' # previous_frame_end
                     /\ UNCHANGED <<recreate_swapchain, stderr>>
               /\ r = "OutOfDate" =>
                     /\ recreate_swapchain'
                     /\ previous_frame_end' = now
                     /\ UNCHANGED stderr
               /\ r \notin {"Ok", "OutOfDate"} =>
                     /\ stderr' = Append(stderr, <<"Failed to flush future", r>>)
                     /\ previous_frame_end' = now
                     /\ UNCHANGED recreate_swapchain

C3_FlushResultHandled == [][C3_FlushStep]_vars

\* a flush that failed with an error other than OutOfDate, logged, with no
\* rebuild asked for
C3_Witness ==
    /\ pc = "return"
    /\ DidWith("flush", "SurfaceLost")
    /\ stderr = << <<"Failed to flush future", "SurfaceLost">> >>
    /\ previous_frame_end = now
    /\ ~recreate_swapchain

\* results a step can end with that are no error, or an error the loop
\* recovers from by rebuilding
Recoverable == {"Ok", "Suboptimal", "OutOfDate", "ImageExtentNotSupported"}

C5_ResizedStep ==
    pc = "idle" /\ resized /\ ~resized' => recreate_swapchain'

C5_RebuildStep ==
    pc = "recreate" /\ Takes("recreate", "Ok")
        => /\ ~recreate_swapchain'
           /\ pc' = "uniforms"
           /\ swapchain' # swapchain
           /\ swapchain'.image_extent = inner_size
           /\ viewport'.dimensions = swapchain'.image_extent
           /\ Len(framebuffers') = swapchain'.image_count
           /\ \A i \in DOMAIN framebuffers' :
                 /\ framebuffers'[i].attachments[1] = SwapchainImages(swapchain')[i]
                 /\ framebuffers'[i].attachments[1].dimensions = swapchain'.image_extent
                 /\ framebuffers'[i].attachments[2].dimensions = swapchain'.image_extent

C5_AcquireStep ==
    pc = "acquire" /\ pc' # pc => ~recreate_swapchain

C5_NoAcquireBeforeRebuild ==
    /\ pc \in {"uniforms", "acquire"} => ~recreate_swapchain
    /\ Did("acquire") /\ recreate_swapchain
          => DidWith("acquire", "Suboptimal") \/ DidWith("acquire", "OutOfDate")
             \/ DidWith("flush", "OutOfDate")

C5_ResizeRebuildsBeforeAcquire ==
    /\ []C5_NoAcquireBeforeRebuild
    /\ [][C5_ResizedStep /\ C5_RebuildStep /\ C5_AcquireStep]_vars

\* a frame that rebuilt the swapchain and is about to acquire from it
C5_Witness ==
    /\ pc = "acquire"
    /\ DidWith("recreate", "Ok")
    /\ swapchain.id = 1
    /\ swapchain.image_extent = <<400, 300>>
    /\ viewport.dimensions = <<400, 300>>

\* C6: when the recreation fails with ImageExtentNotSupported the callback
\* returns at once: nothing is uploaded, acquired, recorded, submitted or
\* presented, the swapchain, the framebuffers, the viewport and
\* previous_frame_end are unchanged, recreate_swapchain stays set, it is
\* cleared by nothing but a successful recreation, and a frame that starts
\* with it set attempts the recreation as its first step.
C6_UnsupportedExtentStep ==
    pc = "recreate" /\ Takes("recreate", "ImageExtentNotSupported")
        => /\ pc' = "return"
           /\ recreate_swapchain /\ recreate_swapchain'
           /\ UNCHANGED <<swapchain, framebuffers, viewport, previous_frame_end>>

C6_FlagKept ==
    recreate_swapchain /\ ~recreate_swapchain' => Takes("recreate", "Ok")

C6_RetryStep ==
    pc = "recreate" /\ recreate_swapchain /\ pc' # pc
        => Len(frame_log') = 2 /\ Last(frame_log').step = "recreate"

C6_FrameSkipped ==
    DidWith("recreate", "ImageExtentNotSupported")
        => /\ pc = "return"
           /\ recreate_swapchain
           /\ frame_log = << Step("cleanup_finished", "Ok"),
                              Step("recreate", "ImageExtentNotSupported") >>
           /\ set = NoSet
           /\ image_index = 0 - 1
           /\ acquire_future = None
           /\ command_buffer = <<>>
           /\ submission = NoSubmission

C6_UnsupportedExtentSkipsFrame ==
    /\ []C6_FrameSkipped
    /\ [][C6_UnsupportedExtentStep /\ C6_FlagKept /\ C6_RetryStep]_vars

\* a recreation refused for its extent, in a frame after a successful one
C6_Witness ==
    /\ pc = "return"
    /\ DidWith("recreate", "ImageExtentNotSupported")
    /\ previous_frame_end.kind = "fence"
    /\ recreate_swapchain

\* the place of a step in the callback
Rank(step) ==
    CASE step = "cleanup_finished" -> 1
      [] step = "recreate" -> 2
      [] step = "upload" -> 3
      [] step = "acquire" -> 4
      [] step = "record" -> 5
      [] step = "execute" -> 6
      [] step = "present" -> 7
      [] step = "flush" -> 8

AcquiredInFrame == DidWith("acquire", "Ok") \/ DidWith("acquire", "Suboptimal")

\* C7: the steps of a frame are taken in the order cleanup_finished, the
\* rebuild (if asked for), the upload of the uniforms, the acquisition, the
\* recording, the execute, the present and the flush, none twice and none
\* without the ones before it (but for the rebuild); a command buffer is
\* submitted only after an image was acquired in the same frame, and the
\* present follows the execute of that frame's command buffer and names the
\* image index acquired in that frame.
C7_FrameOrder ==
    /\ \A i, j \in DOMAIN frame_log :
          i < j => Rank(frame_log[i].step) < Rank(frame_log[j].step)
    /\ frame_log # <<>> => frame_log[1].step = "cleanup_finished"
    /\ pc \notin {"idle", "panicked", "exited"} => Did("cleanup_finished")
    /\ Did("acquire") => Did("upload")
    /\ Did("record") => AcquiredInFrame
    /\ Did("execute") => Did("record") /\ AcquiredInFrame /\ command_buffer # <<>>
    /\ Did("present") =>
          /\ DidWith("execute", "Ok")
          /\ image_index \in 0..(swapchain.image_count - 1)
          /\ acquire_future = SwapchainAcquireFuture
          /\ acquire_future \in submission.waits
          /\ submission.execute = command_buffer
          /\ submission.present = [swapchain |-> swapchain.id,
                                    image_index |-> image_index]
    /\ Did("flush") => Did("present")
    /\ submission # NoSubmission => Did("flush")

\* a whole frame with a rebuild, presenting the second image
C7_Witness ==
    /\ pc = "return"
    /\ frame_log = << Step("cleanup_finished", "Ok"), Step("recreate", "Ok"),
                       Step("upload", "Ok"), Step("acquire", "Ok"),
                       Step("record", "Ok"), Step("execute", "Ok"),
                       Step("present", "Ok"), Step("flush", "Ok") >>
    /\ submission.present.image_index = 1

\* translate(identity, (0, 0, -2.5)), written out
StaticTranslation ==
    << <<100, 0, 0, 0>>, <<0, 100, 0, 0>>, <<0, 0, 100, 0 - 250>>, <<0, 0, 0, 100>> >>

\* look_at((0, 0, 0.01), (0, 0, 0), (0, -1, 0)), written out
FixedView ==
    << <<0 - 100, 0, 0, 0>>, <<0, 0 - 100, 0, 0>>, <<0, 0, 100, 0 - 1>>,
       <<0, 0, 0, 100>> >>

\* the uniforms of elapsed time t and aspect ratio a: no state is read
UniformsAt(t, a) ==
    [mvp |-> [world |-> World(StaticTranslation, t),
              view |-> FixedView,
              projection |-> [aspect |-> a, fovy |-> 18000, near |-> 1,
                              far |-> 10000, tag |-> "perspective"]],
     ambient |-> [color |-> <<100, 100, 100>>, intensity |-> 20],
     directional |-> [position |-> <<0 - 400, 0 - 400, 0, 100>>,
                      color |-> <<100, 100, 100>>]]

\* C8: the uniforms uploaded in a frame are the value at (elapsed time,
\* aspect ratio of the window) of one function that reads nothing else, so
\* two frames with the same elapsed time and aspect ratio upload the same
\* values whatever came before; no step changes mvp.model, ambient_light or
\* directional_light; the view matrix and the light values are the same in
\* every frame.
C8_UploadStep ==
    pc = "uniforms" /\ pc' = "acquire"
        => /\ set' = UniformsAt(Elapsed, AspectRatio(inner_size))
           /\ set'.mvp.view = FixedView
           /\ set'.ambient = UniformsAt(0, <<1, 1>>).ambient
           /\ set'.directional = UniformsAt(0, <<1, 1>>).directional

C8_ModelAndLightsKept ==
    /\ mvp'.model = mvp.model
    /\ UNCHANGED <<ambient_light, directional_light>>

C8_UniformsDependOnTimeAndAspectOnly ==
    /\ [](mvp.model = StaticTranslation)
    /\ [][C8_UploadStep /\ C8_ModelAndLightsKept]_vars

\* an upload at elapsed time 9 s and aspect ratio 4/3, in a window of another
\* size than the one the swapchain was made for, after a frame that was
\* submitted and a rebuild
C8_Witness ==
    /\ pc = "acquire"
    /\ clock = 1
    /\ inner_size = <<400, 300>>
    /\ previous_frame_end.kind = "fence"
    /\ swapchain.id = 1
    /\ set.mvp.projection.aspect = <<4, 3>>

\* the rotations about the z, y and x axes by a * pi/180, written out
Rz(a) == << <<cos(a), 0 - sin(a), 0, 0>>, <<sin(a), cos(a), 0, 0>>,
            <<0, 0, 100, 0>>, <<0, 0, 0, 100>> >>
Ry(a) == << <<cos(a), 0, sin(a), 0>>, <<0, 100, 0, 0>>,
            <<0 - sin(a), 0, cos(a), 0>>, <<0, 0, 0, 100>> >>
Rx(a) == << <<100, 0, 0, 0>>, <<0, cos(a), 0 - sin(a), 0>>,
            <<0, sin(a), cos(a), 0>>, <<0, 0, 0, 100>> >>

\* C9: the world matrix uploaded at elapsed time t is the translation by
\* (0, 0, -2.5) times the rotation about z by 50 t, times the rotation about y
\* by 30 t, times the rotation about x by 20 t (angles in units of pi/180);
\* at t = 0 it is the translation alone.
C9_WorldMatrix ==
    set # NoSet
        => /\ set.mvp.world =
                 MatMul(StaticTranslation,
                        MatMul(MatMul(Rz(50 * Elapsed), Ry(30 * Elapsed)),
                               Rx(20 * Elapsed)))
           /\ Elapsed = 0 => set.mvp.world = StaticTranslation

\* the upload at 9 s: a quarter turn about z, three about y, two about x
C9_Witness ==
    /\ set # NoSet
    /\ Elapsed = 9
    /\ set.mvp.world =
         << <<0, 100, 0, 0>>, <<0, 0, 100, 0>>, <<100, 0, 0, 0 - 250>>,
            <<0, 0, 0, 100>> >>

\* dot(in_normal, light_direction) of the invocation, from its components
FragmentDot ==
    LET l == normalize(<<0 - 400 - fs_in.frag_pos[1], 0 - 400 - fs_in.frag_pos[2],
                         0 - fs_in.frag_pos[3]>>)
        n == fs_in.in_normal
    IN  (n[1] * l[1] + n[2] * l[2] + n[3] * l[3]) \div 100

\* C10: the directional intensity of an invocation is the dot product of the
\* normal and the light direction where that is positive and zero where it
\* is zero or negative, so it is never negative; the colour written is
\* (ambient intensity * ambient colour + directional intensity * directional
\* colour) * vertex colour, with alpha 1.
C10_FragmentColour ==
    f_color # NoColor
        => LET d == FragmentDot
               i == DirectionalIntensity(fs_in.in_normal,
                        LightDirection(Directional_Light_Data, fs_in.frag_pos))
           IN  /\ i >= 0
               /\ d <= 0 => i = 0
               /\ d > 0 => i = d
               /\ \A k \in 1..3 :
                     f_color[k] =
                         (((ambient_light.intensity * ambient_light.color[k]) \div 100
                           + (i * directional_light.color[k]) \div 100)
                          * fs_in.in_color[k]) \div 100
               /\ f_color[4] = 100

\* a fragment whose normal faces away from the light: only the ambient term
C10_Witness ==
    /\ f_color = <<20, 7, 10, 100>>
    /\ fs_in.in_normal = <<0, 0, 0 - 100>>
    /\ fs_in.frag_pos = <<0 - 400, 0 - 400, 0 - 100>>
    /\ FragmentDot < 0
\* the places of the command `name` in the frame's command buffer
Positions(name) == {i \in DOMAIN command_buffer : command_buffer[i].cmd = name}

DrawCommands ==
    {i \in DOMAIN command_buffer :
        command_buffer[i].cmd \in {"draw", "draw_indexed", "draw_indirect",
                                   "draw_indexed_indirect"}}

\* C11: every frame that got to the recording has a command buffer with
\* exactly one render pass (one begin, one end, the begin before the end), and
\* inside it exactly one draw, not indexed, of as many vertices as
\* get_vertex_buffer loaded (36), one instance, first vertex 0, first instance
\* 0; the pipeline, the viewport, the frame's descriptor set and the vertex
\* buffer are bound inside the render pass and before the draw.
C11_SingleDrawOfAllVertices ==
    DidWith("record", "Ok") =>
        /\ Cardinality(Positions("begin_render_pass")) = 1
        /\ Cardinality(Positions("end_render_pass")) = 1
        /\ Cardinality(DrawCommands) = 1
        /\ DrawCommands = Positions("draw")
        /\ \A d \in Positions("draw") :
              /\ command_buffer[d].args = <<36, 1, 0, 0>>
              /\ command_buffer[d].args[1] = Len(get_vertex_buffer)
              /\ \A b \in Positions("begin_render_pass") : b < d
              /\ \A e \in Positions("end_render_pass") : d < e
              /\ \A name \in {"bind_pipeline_graphics", "set_viewport",
                              "bind_descriptor_sets", "bind_vertex_buffers"} :
                    /\ Cardinality(Positions(name)) = 1
                    /\ \A i \in Positions(name) :
                          /\ i < d
                          /\ \A b \in Positions("begin_render_pass") : b < i
        /\ \A i \in Positions("bind_vertex_buffers") :
              /\ command_buffer[i].args = get_vertex_buffer
              /\ Len(command_buffer[i].args) = 36
        /\ \A i \in Positions("bind_descriptor_sets") :
              command_buffer[i].args = set /\ set # NoSet
        /\ \A i \in Positions("set_viewport") : command_buffer[i].args = viewport

\* a frame whose command buffer is recorded and about to be submitted
C11_Witness ==
    /\ pc = "submit"
    /\ DidWith("record", "Ok")
    /\ Positions("draw") = {6}
    /\ Len(command_buffer) = 7

\* C12 as stated: once the close request is handled the loop is halted, no
\* frame callback runs any more; nothing is acquired, executed or presented
\* and the token is neither polled nor waited for.  (The handler runs between
\* callbacks, where the frame log is empty: every step logged while
\* control_flow is Exit was taken after the close request.)
C12_CloseHaltsLoop ==
    control_flow = "Exit" =>
        /\ pc \in {"idle", "exited"}
        /\ ~Did("cleanup_finished")
        /\ ~Did("acquire")
        /\ ~Did("execute") /\ ~Did("present")
        /\ submission = NoSubmission

\* the step that handles the close request
C12_CloseStep ==
    control_flow = "Poll" /\ control_flow' = "Exit"
        => /\ pc = "idle" /\ pc' = "idle"
           /\ previous_frame_end' = previous_frame_end
           /\ UNCHANGED <<recreate_swapchain, swapchain, framebuffers, viewport,
                          mvp, ambient_light, directional_light>>
           /\ UNCHANGED <<localvars, obsvars>>
           /\ frame_log' = <<>> /\ submission' = NoSubmission

C12_ExitSticky == control_flow = "Exit" => control_flow' = "Exit"

C12_StoppedLoopDoesNothing == pc = "exited" => UNCHANGED vars

C12_StoppedOnlyOnRequest ==
    pc = "exited" =>
        /\ control_flow = "Exit"
        /\ frame_log = <<>> /\ submission = NoSubmission /\ command_buffer = <<>>
        /\ image_index = 0 - 1

\* C12, amended: handling the close request sets the control flow to exit and
\* does nothing else (the handler acquires no image, records, submits and
\* presents nothing, and neither waits for, takes nor replaces the token); the
\* exit request is never withdrawn; the loop stops only after such a request
\* and once it has stopped nothing is acquired, submitted or presented.
C12_CloseOnlyRequestsExit ==
    /\ []C12_StoppedOnlyOnRequest
    /\ [][C12_CloseStep /\ C12_ExitSticky /\ C12_StoppedLoopDoesNothing]_vars

\* the loop has stopped on a close request while the token of the last
\* submission is still held, not waited for
C12_Witness ==
    /\ pc = "exited"
    /\ control_flow = "Exit"
    /\ previous_frame_end.kind = "fence"

\* C13: whatever rebuilds came before, framebuffers has one framebuffer per
\* image of the swapchain images are acquired from, the i-th built on the i-th
\* image of that swapchain (with a depth image of the same dimensions); so an
\* acquired image index is an index of the list, framebuffers[image_index]
\* never panics, and the render pass of the frame begins on the framebuffer of
\* the acquired image.
C13_FramebuffersMatchSwapchain ==
    /\ Len(framebuffers) = swapchain.image_count
    /\ \A i \in DOMAIN framebuffers :
          /\ framebuffers[i].attachments[1] = SwapchainImages(swapchain)[i]
          /\ framebuffers[i].attachments[1].swapchain = swapchain.id
          /\ framebuffers[i].attachments[2].dimensions = swapchain.image_extent
    /\ image_index # 0 - 1 => image_index + 1 \in DOMAIN framebuffers
    /\ panic # "index out of bounds"
    /\ \A b \in Positions("begin_render_pass") :
          /\ command_buffer[b].args = framebuffers[image_index + 1]
          /\ command_buffer[b].args.attachments[1].index = image_index
          /\ command_buffer[b].args.attachments[1].swapchain = swapchain.id

\* after at least two rebuilds, the last of them in this frame, the last
\* image of a three-image swapchain is acquired and its framebuffer recorded
C13_Witness ==
    /\ pc = "submit"
    /\ DidWith("recreate", "Ok")
    /\ swapchain.id = 0
    /\ image_index = 2
    /\ Positions("begin_render_pass") = {1}

\* the acquisition that reports a suboptimal swapchain: the image is taken,
\* the flag is set and the frame goes on to the recording
C14_SuboptimalStep ==
    Takes("acquire", "Suboptimal")
        => /\ recreate_swapchain'
           /\ pc' = "record"
           /\ image_index' \in 0..(swapchain.image_count - 1)
           /\ acquire_future' = SwapchainAcquireFuture
           /\ swapchain' = swapchain /\ framebuffers' = framebuffers

\* the flag is cleared by nothing but a successful rebuild, the first step
\* after cleanup_finished of a frame that finds it set is the rebuild, and no
\* acquisition is made while it is set
C14_FlagStep ==
    /\ recreate_swapchain /\ ~recreate_swapchain' => Takes("recreate", "Ok")
    /\ pc = "recreate" /\ recreate_swapchain /\ pc' # pc
          => /\ Len(frame_log') = Len(frame_log) + 1
             /\ Last(frame_log').step = "recreate"
             /\ frame_log = <<Step("cleanup_finished", "Ok")>>
    /\ pc = "acquire" /\ pc' # pc => ~recreate_swapchain

\* the rest of a frame whose acquisition was suboptimal: it is never left
\* early; it is recorded and its command buffer goes through execute, present
\* and flush on the swapchain the image came from (the panic of
\* then_execute(..).unwrap() is the one other end), and the flag stays set
C14_FrameGoesOn ==
    DidWith("acquire", "Suboptimal") =>
        /\ recreate_swapchain
        /\ \/ pc = "record"
           \/ pc = "submit" /\ DidWith("record", "Ok")
           \/ /\ pc = "panicked"
              /\ DidWith("record", "Ok")
              /\ \E x \in CommandBufferExecErrors : DidWith("execute", x)
           \/ /\ pc = "return"
              /\ DidWith("record", "Ok") /\ DidWith("execute", "Ok")
              /\ DidWith("present", "Ok") /\ Did("flush")
              /\ submission.execute = command_buffer
              /\ submission.present = [swapchain |-> swapchain.id,
                                        image_index |-> image_index]
              /\ \A b \in Positions("begin_render_pass") :
                    command_buffer[b].args.attachments[1].swapchain = swapchain.id

\* C14: an acquisition that succeeds and reports the swapchain as suboptimal
\* does not skip the frame: the frame is recorded, submitted and presented
\* with the current swapchain; the rebuild flag is set and stays set, and the
\* next frame attempts the rebuild first, before it acquires.
C14_SuboptimalFrameRendered ==
    /\ []C14_FrameGoesOn
    /\ [][C14_SuboptimalStep /\ C14_FlagStep]_vars

\* a frame presented on a suboptimal swapchain, the rebuild still asked for
C14_Witness ==
    /\ pc = "return"
    /\ DidWith("acquire", "Suboptimal")
    /\ DidWith("present", "Ok") /\ DidWith("flush", "Ok")
    /\ recreate_swapchain
    /\ ~Did("recreate")

\* C15: a Resized event is always handled before the next frame callback
\* starts (RedrawEventsCleared waits for it).  In every frame that submitted
\* work, the aspect ratio the projection of the frame was made with is
\* width / height of the viewport the frame set and of the framebuffer (colour
\* and depth image) it drew to, and its divisor, the inner height read in the
\* frame, is not zero.
C15_AspectMatchesViewport ==
    submission # NoSubmission =>
        LET aspect == set.mvp.projection.aspect
        IN  /\ aspect[2] # 0
            /\ \A v \in Positions("set_viewport") :
                  aspect = AspectRatio(command_buffer[v].args.dimensions)
            /\ \A b \in Positions("begin_render_pass") :
                  /\ aspect = AspectRatio(command_buffer[b].args.attachments[1].dimensions)
                  /\ aspect = AspectRatio(command_buffer[b].args.attachments[2].dimensions)

====
